---- MODULE Spec2Model ----
(***************************************************************************)
(* A model of the media catalog of database/ia_filterdb.py: three          *)
(* partitions (primary, clouds, archive), each backed by a collection of   *)
(* the first database and, when SECOND_FILES_DATABASE_URL is set, by a     *)
(* collection of the second (overflow) database.                           *)
(*                                                                         *)
(* A collection is the sequence of its documents in insertion order, a     *)
(* document is a function from field names to values (a Python dict), a    *)
(* text is a sequence of one-character strings.                            *)
(***************************************************************************)
EXTENDS Integers, Sequences, FiniteSets, TLC

VARIABLES
    SECOND_FILES_DATABASE_URL, \* TRUE iff the second database is configured
    USE_CAPTION_FILTER,        \* the caption-matching toggle
    db,                        \* first database: partition -> collection
    second_db,                 \* second database: partition -> collection
    now,                       \* what datetime.now() returns: the number of
                               \* calls made so far
    ret,                       \* the last call: operation, arguments, outcome
    pc,                        \* per task: position in move_file / bulk_move_files
    task,                      \* per task: arguments and local variables
    Users                      \* data_db.Users of users_chats_db.py: user id ->
                               \* the user's document, or NoUser

vars == <<SECOND_FILES_DATABASE_URL, USE_CAPTION_FILTER, db, second_db, now, ret,
          pc, task, Users>>

----------------------------------------------------------------------------
(* Bounds of the model. *)

\* number of calls made one after the other in a behaviour of Spec
MaxCalls == 3
\* number of distinct media (platform file handles) offered to save_file
NumMedia == 2
\* number of concurrent reorganizer tasks in SpecMove
NumTasks == 2
\* the offsets a caller passes to get_search_results: 0..MaxOffset
MaxOffset == 5
\* the longest stored name and the longest query text in SpecPredicate
MaxNameLen == 4
MaxQueryLen == 3
\* number of user ids in SpecAccess
NumUsers == 2
\* the last reading of the clock in SpecAccess: datetime.now() is in 0..MaxClock
MaxClock == 2

----------------------------------------------------------------------------
(* Texts. *)

Letters == {"a", "b", "A", "B"}
Separators == {".", "+", "-", "_"}

\* \w of the regular expressions
IsWord(c) == c \in Letters \/ c = "_"

\* \s of the regular expressions
IsSpace(c) == c = " "

\* str.lower() on one character
LowerChar(c) == IF c = "A" THEN "a" ELSE IF c = "B" THEN "b" ELSE c

\* str.lower()
Lower(s) == [i \in 1..Len(s) |-> LowerChar(s[i])]

\* s[i:]  (Python slice, i >= 0)
SliceFrom(s, i) == IF i >= Len(s) THEN << >> ELSE SubSeq(s, i + 1, Len(s))

\* s[:n]  (Python slice, n >= 0)
SliceTo(s, n) == IF n >= Len(s) THEN s ELSE SubSeq(s, 1, n)

\* t occurs in s at (1-based) position i, compared as given
OccursAt(t, s, i) ==
    /\ i >= 1
    /\ i + Len(t) - 1 <= Len(s)
    /\ \A j \in 1..Len(t) : s[i + j - 1] = t[j]

\* Python's  t in s
Contains(t, s) == \E i \in 1..(Len(s) + 1) : OccursAt(t, s, i)

\* length of the run of \w characters of s starting at position i
RECURSIVE WordRun(_, _)
WordRun(s, i) ==
    IF i <= Len(s) /\ IsWord(s[i]) THEN 1 + WordRun(s, i + 1) ELSE 0

\* re.sub(r"@\w+|(_|\-|\.|\+)", " ", s), scanning s from position i
RECURSIVE SubFrom(_, _)
SubFrom(s, i) ==
    IF i > Len(s) THEN << >>
    ELSE IF s[i] = "@" /\ WordRun(s, i + 1) > 0
         THEN <<" ">> \o SubFrom(s, i + 1 + WordRun(s, i + 1))
    ELSE IF s[i] \in Separators
         THEN <<" ">> \o SubFrom(s, i + 1)
    ELSE <<s[i]>> \o SubFrom(s, i + 1)

NormalizeText(s) == SubFrom(s, 1)

\* str.strip()
RECURSIVE LStrip(_)
LStrip(s) == IF s # << >> /\ IsSpace(Head(s)) THEN LStrip(Tail(s)) ELSE s

RECURSIVE RStrip(_)
RStrip(s) ==
    IF s # << >> /\ IsSpace(s[Len(s)]) THEN RStrip(SubSeq(s, 1, Len(s) - 1))
    ELSE s

Strip(s) == RStrip(LStrip(s))

----------------------------------------------------------------------------
(* File ID encoding. *)

\* struct.pack of one little-endian two's-complement integer of w bytes
RECURSIVE PackInt(_, _)
PackInt(v, w) ==
    IF w = 0 THEN << >> ELSE <<v % 256>> \o PackInt(v \div 256, w - 1)

\* pack("<iiqq", file_type, dc_id, media_id, access_hash)
pack(decoded) ==
    PackInt(decoded[1], 4) \o PackInt(decoded[2], 4)
        \o PackInt(decoded[3], 8) \o PackInt(decoded[4], 8)

\* EncodeLoop with the length of a run of zero bytes left out of the output
RECURSIVE EncodeLoop_NoCount(_, _, _)
EncodeLoop_NoCount(s, i, n) ==
    IF i > Len(s) THEN << >>
    ELSE IF s[i] = 0 THEN EncodeLoop_NoCount(s, i + 1, n + 1)
    ELSE (IF n # 0 THEN <<0>> ELSE << >>) \o <<s[i]>>
             \o EncodeLoop_NoCount(s, i + 1, 0)

\* the loop of encode_file_id over the bytes s from position i, with n the
\* length of the pending run of zero bytes
RECURSIVE EncodeLoop(_, _, _)
EncodeLoop(s, i, n) ==
    IF i > Len(s) THEN << >>
    ELSE IF s[i] = 0 THEN EncodeLoop(s, i + 1, n + 1)
    ELSE (IF n # 0 THEN <<0, n>> ELSE << >>) \o <<s[i]>>
             \o EncodeLoop(s, i + 1, 0)

Base64Alphabet ==
    << "A", "B", "C", "D", "E", "F", "G", "H", "I", "J", "K", "L", "M",
       "N", "O", "P", "Q", "R", "S", "T", "U", "V", "W", "X", "Y", "Z",
       "a", "b", "c", "d", "e", "f", "g", "h", "i", "j", "k", "l", "m",
       "n", "o", "p", "q", "r", "s", "t", "u", "v", "w", "x", "y", "z",
       "0", "1", "2", "3", "4", "5", "6", "7", "8", "9", "-", "_" >>

B64Char(v) == Base64Alphabet[v + 1]

\* base64.urlsafe_b64encode(r).decode().rstrip("=")
RECURSIVE Base64(_)
Base64(r) ==
    IF Len(r) = 0 THEN ""
    ELSE IF Len(r) = 1 THEN
        B64Char(r[1] \div 4) \o B64Char((r[1] % 4) * 16)
    ELSE IF Len(r) = 2 THEN
        B64Char(r[1] \div 4)
            \o B64Char((r[1] % 4) * 16 + r[2] \div 16)
            \o B64Char((r[2] % 16) * 4)
    ELSE
        B64Char(r[1] \div 4)
            \o B64Char((r[1] % 4) * 16 + r[2] \div 16)
            \o B64Char((r[2] % 16) * 4 + r[3] \div 64)
            \o B64Char(r[3] % 64)
            \o Base64(SubSeq(r, 4, Len(r)))

encode_file_id(s) == Base64(EncodeLoop(s \o <<22>> \o <<4>>, 1, 0))

\* the decoded handle is the tuple FileId.decode returns
unpack_new_file_id(decoded) == encode_file_id(pack(decoded))

----------------------------------------------------------------------------
(* Configuration and inputs. *)

\* the router's names, in the order of the "all collections" loops
Partitions == <<"primary", "clouds", "archive">>

PartitionSet == {Partitions[i] : i \in 1..Len(Partitions)}

\* the collection names a caller may pass: the three partitions and a name
\* the router does not know
CollectionNames == PartitionSet \cup {"other"}

\* Python's None, for an optional argument
None == "None"

\* the media offered to save_file: the decoded file handle, the name and the
\* caption as the platform gives them
MediaTable ==
    << [file_id |-> <<5, 4, 1, 1>>,  file_name |-> <<"a", ".", "B">>,
        caption |-> <<"@", "a">>],
       [file_id |-> <<5, 4, 2, -1>>, file_name |-> <<"a", "b">>,
        caption |-> <<"a">>],
       [file_id |-> <<5, 1, 1, 1>>,  file_name |-> <<"B", "_", "a">>,
        caption |-> << >>],
       [file_id |-> <<4, 4, 1, 1>>,  file_name |-> <<"A">>,
        caption |-> <<"a", " ", "b">>] >>

Media == {MediaTable[i] : i \in 1..NumMedia}

\* the key save_file derives from each medium's handle
KeyOf == [m \in Media |-> unpack_new_file_id(m.file_id)]

\* the normalized texts save_file stores for each medium
file_name_of == [m \in Media |-> NormalizeText(m.file_name)]
caption_of == [m \in Media |-> NormalizeText(m.caption)]

\* the query texts a caller may pass
Queries == { << >>, <<"a">>, <<"a", " ", "b">> }

\* What an insert_one / delete_one call meets in the store engine:
\*   "none"   the engine serves the call
\*   "quota"  OperationFailure carrying the engine's quota / size-limit signal
\*   "opfail" OperationFailure of any other kind
\*   "conn"   an exception that is not an OperationFailure
Faults == {"none", "quota", "opfail", "conn"}

IsOperationFailure(e) == e \in {"quota", "opfail"}

----------------------------------------------------------------------------
(* Documents and collections. *)

\* d[k] = v  on a Python dict
DictSet(d, k, v) ==
    [x \in (DOMAIN d) \cup {k} |-> IF x = k THEN v ELSE d[x]]

HasKey(col, id) == \E i \in 1..Len(col) : col[i]["_id"] = id

\* col.find_one({'_id': id}): the sequence of the document found, or << >>
find_one(col, id) == SelectSeq(col, LAMBDA d : d["_id"] = id)

\* the outcome of col.insert_one(document) when the engine meets fault:
\* "ok", "dup" (DuplicateKeyError) or the fault raised
insert_one(col, document, fault) ==
    IF fault # "none" THEN fault
    ELSE IF HasKey(col, document["_id"]) THEN "dup"
    ELSE "ok"

\* the collection after a served insert_one
Inserted(col, document) == Append(col, document)

\* the collection after col.delete_one({'_id': id})
delete_one(col, id) == SelectSeq(col, LAMBDA d : d["_id"] # id)

get_collection_by_name(collection_name) ==
    IF collection_name \in PartitionSet THEN collection_name ELSE "primary"

\* {'primary': second_primary, ...}.get(collection_name, second_primary)
second_col_or_primary(collection_name) ==
    IF collection_name \in PartitionSet THEN collection_name ELSE "primary"

\* {'primary': second_primary, ...}.get(collection_name)
second_col_get(collection_name) ==
    IF collection_name \in PartitionSet THEN collection_name ELSE None

\* the keys a partition holds, in its first-database collection or in its
\* second-database collection
KeysOf(col) == {col[i]["_id"] : i \in 1..Len(col)}

Holds(p, id) == HasKey(db[p], id) \/ HasKey(second_db[p], id)

\* number of documents with key id in partition p, over both databases
CountKey(d1, d2, p, id) ==
    Len(SelectSeq(d1[p], LAMBDA d : d["_id"] = id))
        + Len(SelectSeq(d2[p], LAMBDA d : d["_id"] = id))

\* a call is made, and time passes: the clock reads one more at the next call
CallMade ==
    /\ now < MaxCalls
    /\ now' = now + 1

----------------------------------------------------------------------------
(* save_file *)

\* Document with collection_type fixed to 'primary' whatever the partition
Document_Primary(media, collection_name) ==
    [ _id             |-> KeyOf[media],
      file_name       |-> file_name_of[media],
      caption         |-> caption_of[media],
      collection_type |-> "primary",
      added_date      |-> now ]

Document(media, collection_name) ==
    [ _id             |-> KeyOf[media],
      file_name       |-> file_name_of[media],
      caption         |-> caption_of[media],
      collection_type |-> collection_name,
      added_date      |-> now ]

\* f1: what the insert into the first database meets; f2: what the insert
\* into the second database meets
save_file(media, collection_name, f1, f2) ==
    LET document == Document(media, collection_name)
        target_col == get_collection_by_name(collection_name)
        second_col == second_col_or_primary(collection_name)
        r1 == insert_one(db[target_col], document, f1)
        r2 == insert_one(second_db[second_col], document, f2)
        call == [op |-> "save_file", file_id |-> document["_id"],
                 collection_name |-> collection_name, signal |-> r1]
    IN  /\ CallMade
        /\ IF r1 = "ok" THEN
               /\ db' = [db EXCEPT ![target_col] = Inserted(@, document)]
               /\ second_db' = second_db
               /\ ret' = call @@ [status |-> "suc", where |-> collection_name,
                                  raised |-> FALSE, signal2 |-> None]
           ELSE IF r1 = "dup" THEN
               /\ UNCHANGED <<db, second_db>>
               /\ ret' = call @@ [status |-> "dup", where |-> collection_name,
                                  raised |-> FALSE, signal2 |-> None]
           ELSE IF IsOperationFailure(r1) THEN
               IF SECOND_FILES_DATABASE_URL THEN
                   IF r2 = "ok" THEN
                       /\ second_db' = [second_db EXCEPT
                                          ![second_col] = Inserted(@, document)]
                       /\ db' = db
                       /\ ret' = call @@
                             [status |-> "suc",
                              where |-> "second_" \o collection_name,
                              raised |-> FALSE, signal2 |-> r2]
                   ELSE IF r2 = "dup" THEN
                       /\ UNCHANGED <<db, second_db>>
                       /\ ret' = call @@
                             [status |-> "dup",
                              where |-> "second_" \o collection_name,
                              raised |-> FALSE, signal2 |-> r2]
                   ELSE
                       \* nothing catches what the second insert raises
                       /\ UNCHANGED <<db, second_db>>
                       /\ ret' = call @@
                             [status |-> r2, where |-> None,
                              raised |-> TRUE, signal2 |-> r2]
               ELSE
                   /\ UNCHANGED <<db, second_db>>
                   /\ ret' = call @@ [status |-> "err", where |-> collection_name,
                                      raised |-> FALSE, signal2 |-> None]
           ELSE
               \* not an OperationFailure: no except clause catches it
               /\ UNCHANGED <<db, second_db>>
               /\ ret' = call @@ [status |-> r1, where |-> None,
                                  raised |-> TRUE, signal2 |-> None]
        /\ UNCHANGED <<Users, SECOND_FILES_DATABASE_URL, USE_CAPTION_FILTER, pc, task>>

----------------------------------------------------------------------------
(* Query patterns.  The query texts are literal: letters and spaces. *)

\* the character class [\s\.\+\-_]
IsSepClass(c) == IsSpace(c) \/ c \in Separators

\* \b before position i of s (i in 1..Len(s)+1)
WordBoundary(s, i) ==
    (i > 1 /\ IsWord(s[i - 1])) # (i <= Len(s) /\ IsWord(s[i]))

\* the literal q matches s at position i, ignoring case
TokenAt(q, s, i) ==
    /\ i + Len(q) - 1 <= Len(s)
    /\ \A j \in 1..Len(q) : LowerChar(s[i + j - 1]) = LowerChar(q[j])

\* '.' : some character other than a newline
SearchAny(s) == \E i \in 1..Len(s) : s[i] # "\n"

\* (\b|[\.\+\-_]) q (\b|[\.\+\-_])
SearchSingle(q, s) ==
    \E i \in 1..(Len(s) + 1) :
        /\ WordBoundary(s, i) \/ (i > 1 /\ s[i - 1] \in Separators)
        /\ TokenAt(q, s, i)
        /\ \/ WordBoundary(s, i + Len(q))
           \/ (i + Len(q) <= Len(s) /\ s[i + Len(q)] \in Separators)

\* q with every space replaced by .*[\s\.\+\-_], matched from position k of
\* q at position i of s
RECURSIVE MatchFrom(_, _, _, _)
MatchFrom(q, k, s, i) ==
    IF k > Len(q) THEN TRUE
    ELSE IF q[k] = " " THEN
        \E j \in i..Len(s) : IsSepClass(s[j]) /\ MatchFrom(q, k + 1, s, j + 1)
    ELSE
        /\ i <= Len(s)
        /\ LowerChar(s[i]) = LowerChar(q[k])
        /\ MatchFrom(q, k + 1, s, i + 1)

SearchMulti(q, s) == \E i \in 1..(Len(s) + 1) : MatchFrom(q, 1, s, i)

\* the pattern built from the stripped query text
raw_pattern(query) ==
    IF query = << >> THEN [kind |-> "any", text |-> query]
    ELSE IF ~ Contains(<<" ">>, query) THEN [kind |-> "single", text |-> query]
    ELSE [kind |-> "multi", text |-> query]

\* regex.search(s)
RegexSearch(regex, s) ==
    CASE regex.kind = "any"    -> SearchAny(s)
      [] regex.kind = "single" -> SearchSingle(regex.text, s)
      [] regex.kind = "multi"  -> SearchMulti(regex.text, s)

\* a document satisfies {'file_name': regex} or
\* {'$or': [{'file_name': regex}, {'caption': regex}]}
Satisfies(d, filter_query) ==
    \E f \in filter_query.fields : RegexSearch(filter_query.regex, d[f])

\* list(col.find(filter_query))
find(col, filter_query) ==
    SelectSeq(col, LAMBDA d : Satisfies(d, filter_query))

\* delete_many that removes every document, matching or not
delete_many_All(col, filter_query) ==
    SelectSeq(col, LAMBDA d : FALSE)

\* the collection after col.delete_many(filter_query)
delete_many(col, filter_query) ==
    SelectSeq(col, LAMBDA d : ~ Satisfies(d, filter_query))

\* the filter of delete_files and bulk_move_files
NameFilter(query) ==
    [fields |-> {"file_name"}, regex |-> raw_pattern(Strip(query))]

----------------------------------------------------------------------------
(* move_file, copy_file, bulk_move_files, delete_files: one call, with no    *)
(* other call running.                                                      *)

\* Retarget without the update of collection_type
Retarget_KeepType(file, to_collection) ==
    DictSet(file, "moved_date", now)

\* the document as move_file and bulk_move_files write it to the target
Retarget(file, to_collection) ==
    DictSet(DictSet(file, "collection_type", to_collection),
            "moved_date", now)

\* fi: what the insert into the target meets; fd: what the delete from the
\* source meets
move_file(file_id, from_collection, to_collection, fi, fd) ==
    LET from_col == get_collection_by_name(from_collection)
        to_col == get_collection_by_name(to_collection)
        found == find_one(db[from_col], file_id)
        file == Retarget(found[1], to_collection)
        r == insert_one(db[to_col], file, fi)
        call == [op |-> "move_file", file_id |-> file_id,
                 from_collection |-> from_collection,
                 to_collection |-> to_collection, raised |-> FALSE]
    IN  /\ CallMade
        /\ IF found = << >> THEN
               /\ db' = db
               /\ ret' = call @@ [success |-> FALSE,
                                  message |-> "File not found in source collection"]
           ELSE IF r # "ok" THEN
               \* except Exception: the insert raised
               /\ db' = db
               /\ ret' = call @@ [success |-> FALSE, message |-> r]
           ELSE IF fd # "none" THEN
               \* except Exception: the delete raised, after the insert
               /\ db' = [db EXCEPT ![to_col] = Inserted(@, file)]
               /\ ret' = call @@ [success |-> FALSE, message |-> fd]
           ELSE
               /\ db' = [[db EXCEPT ![to_col] = Inserted(@, file)]
                            EXCEPT ![from_col] = delete_one(@, file_id)]
               /\ ret' = call @@ [success |-> TRUE,
                                  message |-> "File moved successfully"]
        /\ UNCHANGED <<Users, SECOND_FILES_DATABASE_URL, USE_CAPTION_FILTER, second_db, pc, task>>

\* fi: what the insert into the target meets
copy_file(file_id, from_collection, to_collection, fi) ==
    LET from_col == get_collection_by_name(from_collection)
        to_col == get_collection_by_name(to_collection)
        found == find_one(db[from_col], file_id)
        file_copy == DictSet(DictSet(found[1], "collection_type", to_collection),
                             "copied_date", now)
        existing == find_one(db[to_col], file_id)
        r == insert_one(db[to_col], file_copy, fi)
        call == [op |-> "copy_file", file_id |-> file_id,
                 from_collection |-> from_collection,
                 to_collection |-> to_collection, raised |-> FALSE]
    IN  /\ CallMade
        /\ IF found = << >> THEN
               /\ db' = db
               /\ ret' = call @@ [success |-> FALSE, new_id |-> None,
                                  message |-> "File not found"]
           ELSE IF existing # << >> THEN
               /\ db' = db
               /\ ret' = call @@ [success |-> FALSE, new_id |-> None,
                                  message |-> "File already exists in target collection"]
           ELSE IF r # "ok" THEN
               /\ db' = db
               /\ ret' = call @@ [success |-> FALSE, new_id |-> None,
                                  message |-> r]
           ELSE
               /\ db' = [db EXCEPT ![to_col] = Inserted(@, file_copy)]
               /\ ret' = call @@ [success |-> TRUE, new_id |-> file_id,
                                  message |-> "File copied successfully"]
        /\ UNCHANGED <<Users, SECOND_FILES_DATABASE_URL, USE_CAPTION_FILTER, second_db, pc, task>>

\* The loop of bulk_move_files from the i-th file of the snapshot files on,
\* with d the first database and n the count so far.  The engine meets fault
\* at the step fstep ("insert" or "delete") of the file number fault_at
\* (0: never).  The result: the database, the count, and what was raised.
RECURSIVE BulkLoop(_, _, _, _, _, _, _, _, _)
BulkLoop(files, i, d, n, from_col, to_col, to_collection, fault_at, fx) ==
    IF i > Len(files) THEN [db |-> d, moved_count |-> n, raised |-> None]
    ELSE
        LET file == Retarget(files[i], to_collection)
            fi == IF fault_at = i /\ fx.step = "insert" THEN fx.fault ELSE "none"
            fd == IF fault_at = i /\ fx.step = "delete" THEN fx.fault ELSE "none"
            r == insert_one(d[to_col], file, fi)
            d1 == [d EXCEPT ![to_col] = Inserted(@, file)]
            d2 == [d1 EXCEPT ![from_col] = delete_one(@, file["_id"])]
        IN  IF r = "dup" THEN
                \* except DuplicateKeyError: continue
                BulkLoop(files, i + 1, d, n, from_col, to_col, to_collection,
                         fault_at, fx)
            ELSE IF r # "ok" THEN
                [db |-> d, moved_count |-> n, raised |-> r]
            ELSE IF fd # "none" THEN
                [db |-> d1, moved_count |-> n, raised |-> fd]
            ELSE
                BulkLoop(files, i + 1, d2, n + 1, from_col, to_col,
                         to_collection, fault_at, fx)

bulk_move_files(query, from_collection, to_collection, fault_at, fx) ==
    LET from_col == get_collection_by_name(from_collection)
        to_col == get_collection_by_name(to_collection)
        files == find(db[from_col], NameFilter(query))
        out == BulkLoop(files, 1, db, 0, from_col, to_col, to_collection,
                        fault_at, fx)
    IN  /\ CallMade
        /\ fault_at <= Len(files)
        /\ db' = out.db
        /\ ret' = [op |-> "bulk_move_files", query |-> query,
                   from_collection |-> from_collection,
                   to_collection |-> to_collection,
                   moved_count |-> IF out.raised = None THEN out.moved_count
                                   ELSE None,
                   raised |-> out.raised # None, status |-> out.raised]
        /\ UNCHANGED <<Users, SECOND_FILES_DATABASE_URL, USE_CAPTION_FILTER, second_db, pc, task>>

\* the count of col.delete_many(filter_query)
deleted_count(col, filter_query) == Len(find(col, filter_query))

\* collection_name is None for "all collections"
delete_files(query, collection_name) ==
    LET filter_query == NameFilter(query)
        col == get_collection_by_name(collection_name)
        second_col == second_col_get(collection_name)
        call == [op |-> "delete_files", query |-> query,
                 collection_name |-> collection_name]
    IN  /\ CallMade
        /\ IF collection_name # None THEN
               /\ db' = [db EXCEPT ![col] = delete_many(@, filter_query)]
               /\ IF ~ SECOND_FILES_DATABASE_URL THEN
                      /\ second_db' = second_db
                      /\ ret' = call @@
                            [total_deleted |-> deleted_count(db[col], filter_query),
                             raised |-> FALSE]
                  ELSE IF second_col = None THEN
                      \* None.delete_many: AttributeError, after the first delete
                      /\ second_db' = second_db
                      /\ ret' = call @@ [total_deleted |-> None, raised |-> TRUE]
                  ELSE
                      /\ second_db' = [second_db EXCEPT
                                         ![second_col] = delete_many(@, filter_query)]
                      /\ ret' = call @@
                            [total_deleted |->
                                 deleted_count(db[col], filter_query)
                                   + deleted_count(second_db[second_col], filter_query),
                             result2 |->
                                 deleted_count(second_db[second_col], filter_query),
                             raised |-> FALSE]
           ELSE
               /\ db' = [p \in PartitionSet |-> delete_many(db[p], filter_query)]
               /\ second_db' =
                      IF SECOND_FILES_DATABASE_URL
                      THEN [p \in PartitionSet |->
                                delete_many(second_db[p], filter_query)]
                      ELSE second_db
               /\ ret' = call @@
                     [total_deleted |->
                          deleted_count(db["primary"], filter_query)
                            + deleted_count(db["clouds"], filter_query)
                            + deleted_count(db["archive"], filter_query)
                            + (IF SECOND_FILES_DATABASE_URL
                               THEN deleted_count(second_db["primary"], filter_query)
                                      + deleted_count(second_db["clouds"], filter_query)
                                      + deleted_count(second_db["archive"], filter_query)
                               ELSE 0),
                      raised |-> FALSE]
        /\ UNCHANGED <<Users, SECOND_FILES_DATABASE_URL, USE_CAPTION_FILTER, pc, task>>

----------------------------------------------------------------------------
(* get_file_details *)

\* the first document with key query over the collections cols of database d,
\* scanned in order from the i-th
RECURSIVE FirstHit(_, _, _, _)
FirstHit(d, cols, i, query) ==
    IF i > Len(cols) THEN << >>
    ELSE IF find_one(d[cols[i]], query) # << >> THEN find_one(d[cols[i]], query)
    ELSE FirstHit(d, cols, i + 1, query)

\* get_file_details with the second database scanned before the first
get_file_details_SecondFirst(query) ==
    IF SECOND_FILES_DATABASE_URL
         /\ FirstHit(second_db, Partitions, 1, query) # << >>
    THEN FirstHit(second_db, Partitions, 1, query)
    ELSE FirstHit(db, Partitions, 1, query)

\* the sequence of the document returned, or << >> for None
get_file_details(query) ==
    IF FirstHit(db, Partitions, 1, query) # << >>
    THEN FirstHit(db, Partitions, 1, query)
    ELSE IF SECOND_FILES_DATABASE_URL
    THEN FirstHit(second_db, Partitions, 1, query)
    ELSE << >>

----------------------------------------------------------------------------
(* get_search_results *)

\* for doc in results: doc['source_collection'] = name
Tagged(results, name) ==
    [i \in 1..Len(results) |-> DictSet(results[i], "source_collection", name)]

\* the filter of get_search_results and get_search_counts
SearchFilter(query) ==
    [fields |-> IF USE_CAPTION_FILTER THEN {"file_name", "caption"}
                ELSE {"file_name"},
     regex |-> raw_pattern(Strip(query))]

\* the "all collections" loop from the i-th partition on: the results and
\* the counts it adds to those given
RECURSIVE AllLoop(_, _, _, _)
AllLoop(filter_query, i, results, counts) ==
    IF i > Len(Partitions) THEN [results |-> results, counts |-> counts]
    ELSE
        LET col_name == Partitions[i]
            col_results == Tagged(find(db[col_name], filter_query), col_name)
            second_results ==
                IF SECOND_FILES_DATABASE_URL
                THEN Tagged(find(second_db[col_name], filter_query), col_name)
                ELSE << >>
        IN  AllLoop(filter_query, i + 1,
                    results \o col_results \o second_results,
                    [counts EXCEPT ![col_name] =
                         Len(col_results) + Len(second_results)])

\* the results of the "specific collection" branch
OneCollection(filter_query, collection_name) ==
    LET target_col == get_collection_by_name(collection_name)
        second_col == second_col_get(collection_name)
    IN  Tagged(find(db[target_col], filter_query)
                 \o (IF SECOND_FILES_DATABASE_URL /\ second_col # None
                     THEN find(second_db[second_col], filter_query)
                     ELSE << >>),
               collection_name)

\* [file for file in results if lang in file['file_name'].lower()]
LangFiles(results, lang) ==
    SelectSeq(results, LAMBDA file : Contains(lang, Lower(file["file_name"])))

\* the list the page is cut from
Listed(results, lang) == IF lang # << >> THEN LangFiles(results, lang) ELSE results

\* Page that ignores the offset: every page is the first one
Page_FromStart(listed, offset, max_results) ==
    SliceTo(listed, max_results)

\* listed[offset:][:max_results]
Page(listed, offset, max_results) ==
    SliceTo(SliceFrom(listed, offset), max_results)

\* NextOffset with > in place of >=
NextOffset_Strict(offset, max_results, total_results) ==
    IF offset + max_results > total_results THEN << >>
    ELSE <<offset + max_results>>

\* next_offset: << >> stands for the empty marker ''
NextOffset(offset, max_results, total_results) ==
    IF offset + max_results >= total_results THEN << >>
    ELSE <<offset + max_results>>

\* collection_name is None for "all collections"; lang is << >> for no
\* language.  truth is what the truth test "if second_col:" of a collection
\* object yields: "True", or "NotImplementedError" with a driver whose
\* collections refuse truth testing.
get_search_results(query, collection_name, max_results, offset, lang, truth) ==
    LET filter_query == SearchFilter(query)
        all == AllLoop(filter_query, 1, << >>, [p \in PartitionSet |-> 0])
        results == IF collection_name # None
                   THEN OneCollection(filter_query, collection_name)
                   ELSE all.results
        listed == Listed(results, lang)
        call == [op |-> "get_search_results", query |-> query,
                 collection_name |-> collection_name,
                 max_results |-> max_results, offset |-> offset, lang |-> lang]
    IN  /\ truth # "True" =>
               /\ collection_name # None
               /\ SECOND_FILES_DATABASE_URL
               /\ second_col_get(collection_name) # None
        /\ IF truth # "True" THEN
               ret' = call @@ [raised |-> TRUE, status |-> truth]
           ELSE
               ret' = call @@
                   [raised |-> FALSE,
                    results |-> results,
                    listed |-> listed,
                    files |-> Page(listed, offset, max_results),
                    next_offset |-> NextOffset(offset, max_results, Len(listed)),
                    total_results |-> Len(listed),
                    counts |-> IF collection_name # None THEN None ELSE all.counts]
        /\ UNCHANGED <<Users, SECOND_FILES_DATABASE_URL, USE_CAPTION_FILTER, db,
                       second_db, now, pc, task>>

----------------------------------------------------------------------------
(* get_search_counts *)

\* count_documents that counts every document, matching or not
count_documents_All(col, filter_query) == Len(col)

\* col.count_documents(filter_query)
count_documents(col, filter_query) == Len(find(col, filter_query))

get_search_counts(query) ==
    LET filter_query == SearchFilter(query)
        counts == [col_name \in PartitionSet |->
                      count_documents(db[col_name], filter_query)
                        + (IF SECOND_FILES_DATABASE_URL
                           THEN count_documents(second_db[col_name], filter_query)
                           ELSE 0)]
    IN  /\ ret' = [op |-> "get_search_counts", raised |-> FALSE,
                   query |-> query, counts |-> counts]
        /\ UNCHANGED <<Users, SECOND_FILES_DATABASE_URL, USE_CAPTION_FILTER,
                       db, second_db, now, pc, task>>

----------------------------------------------------------------------------
(* users_chats_db.py: the users collection and the roles.  A user document  *)
(* is kept with the fields the role operations read and write (id, role);   *)
(* an optional datetime is << >> for None and <<t>> for the time t.         *)

UserIds == 1..NumUsers

\* the users collection with no document
NoUsers == [id \in UserIds |-> << >>]

default_user_role ==
    [role |-> "public", premium_expire |-> << >>, premium_start |-> << >>,
     trial_used |-> FALSE, search_access |-> << >>]

new_user(id) == [id |-> id, role |-> default_user_role]

\* self.col.find_one({'id': int(id)}): << >> for None
get_user(id) == Users[id]

Roles == {"admin", "premium", "public"}

\* the expiry dates a caller passes to set_role
ExpireDates == { << >> } \cup { <<t>> : t \in 0..MaxClock }

\* role_data of set_role
role_data(role, expire_date) ==
    [role |-> role,
     premium_expire |-> IF role = "premium" THEN expire_date ELSE << >>,
     premium_start |-> IF role = "premium" THEN <<now>> ELSE << >>,
     trial_used |-> FALSE,
     search_access |-> IF role \in {"admin", "premium"}
                       THEN <<"primary", "clouds", "archive">> ELSE << >>]

\* the collection after update_one({'id': user_id}, {'$set': {'role': data}})
update_role(user_id, data) ==
    IF Users[user_id] = << >> THEN Users
    ELSE [Users EXCEPT ![user_id] = <<[@[1] EXCEPT !.role = data]>>]

\* Unexpired with >= in place of >
Unexpired_Inclusive(expire) == expire = << >> \/ expire[1] >= now

\* is_premium: "not expire" (lifetime) or expire > datetime.now()
Unexpired(expire) == expire = << >> \/ expire[1] > now

is_admin(user_id) ==
    LET user == get_user(user_id)
    IN  user # << >> /\ user[1].role.role = "admin"

\* what is_premium returns
is_premium(user_id) ==
    LET user == get_user(user_id)
    IN  /\ user # << >>
        /\ \/ user[1].role.role = "admin"
           \/ /\ user[1].role.role = "premium"
              /\ Unexpired(user[1].role.premium_expire)

\* is_premium takes its "Expired - downgrade to public" branch
is_premium_expired(user_id) ==
    LET user == get_user(user_id)
    IN  /\ user # << >>
        /\ user[1].role.role = "premium"
        /\ ~ Unexpired(user[1].role.premium_expire)

add_user(id) ==
    /\ Users' = IF Users[id] = << >>
                THEN [Users EXCEPT ![id] = <<new_user(id)>>] ELSE Users
    /\ ret' = [op |-> "add_user", raised |-> FALSE, user_id |-> id,
               result |-> Users[id] = << >>]
    /\ UNCHANGED <<SECOND_FILES_DATABASE_URL, USE_CAPTION_FILTER, db,
                   second_db, now, pc, task>>

delete_user(user_id) ==
    /\ Users' = [Users EXCEPT ![user_id] = << >>]
    /\ ret' = [op |-> "delete_user", raised |-> FALSE, user_id |-> user_id]
    /\ UNCHANGED <<SECOND_FILES_DATABASE_URL, USE_CAPTION_FILTER, db,
                   second_db, now, pc, task>>

set_role(user_id, role, expire_date) ==
    /\ Users' = update_role(user_id, role_data(role, expire_date))
    /\ ret' = [op |-> "set_role", raised |-> FALSE, user_id |-> user_id,
               role |-> role, expire_date |-> expire_date]
    /\ UNCHANGED <<SECOND_FILES_DATABASE_URL, USE_CAPTION_FILTER, db,
                   second_db, now, pc, task>>

\* is_admin(user_id) or is_premium(user_id), with the set_role call of
\* is_premium when it is reached and finds the premium expired
has_file_access(user_id) ==
    LET downgrade == ~ is_admin(user_id) /\ is_premium_expired(user_id)
    IN  /\ Users' = IF downgrade
                    THEN update_role(user_id, role_data("public", << >>))
                    ELSE Users
        /\ ret' = [op |-> "has_file_access", raised |-> FALSE,
                   user_id |-> user_id,
                   result |-> is_admin(user_id) \/ is_premium(user_id),
                   downgrade |-> downgrade]
        /\ UNCHANGED <<SECOND_FILES_DATABASE_URL, USE_CAPTION_FILTER, db,
                       second_db, now, pc, task>>

\* [] when there is no user document, else the stored search_access
get_search_access(user_id) ==
    LET user == get_user(user_id)
    IN  /\ ret' = [op |-> "get_search_access", raised |-> FALSE,
                   user_id |-> user_id,
                   result |-> IF user = << >> THEN << >>
                              ELSE user[1].role.search_access]
        /\ UNCHANGED <<Users, SECOND_FILES_DATABASE_URL, USE_CAPTION_FILTER, db,
                       second_db, now, pc, task>>

\* time passes: datetime.now() reads one more
clock_tick ==
    /\ now < MaxClock
    /\ now' = now + 1
    /\ UNCHANGED <<SECOND_FILES_DATABASE_URL, USE_CAPTION_FILTER, db,
                   second_db, ret, pc, task, Users>>

----------------------------------------------------------------------------
(* The catalog under calls made one after the other. *)

Tasks == 1..NumTasks

FileIds == {KeyOf[m] : m \in Media}

EmptyDb == [p \in PartitionSet |-> << >>]

NoCall == [op |-> "none", raised |-> FALSE]

Init ==
    /\ Users = NoUsers
    /\ SECOND_FILES_DATABASE_URL \in BOOLEAN
    /\ USE_CAPTION_FILTER = FALSE
    /\ db = EmptyDb
    /\ second_db = EmptyDb
    /\ now = 0
    /\ ret = NoCall
    /\ pc = [t \in Tasks |-> "idle"]
    /\ task = [t \in Tasks |-> NoCall]

\* the faults a bulk move may meet: which one, and at which step
BulkFaults ==
    { [fault |-> "quota", step |-> "insert"],
      [fault |-> "conn", step |-> "delete"] }

\* what the second insert of save_file may meet: it is made only when the
\* first raised an OperationFailure and the second database is configured
SecondFaults(f1) ==
    IF IsOperationFailure(f1) /\ SECOND_FILES_DATABASE_URL THEN Faults
    ELSE {"none"}

\* what the delete of move_file may meet: it is made only after the insert
DeleteFaults(fi) == IF fi = "none" THEN {"none", "conn"} ELSE {"none"}

Next ==
    \/ \E m \in Media, c \in CollectionNames, f1 \in Faults :
         \E f2 \in SecondFaults(f1) :
           save_file(m, c, f1, f2)
    \/ \E k \in FileIds, a \in CollectionNames, b \in CollectionNames,
          fi \in {"none", "quota"} :
         \E fd \in DeleteFaults(fi) :
           move_file(k, a, b, fi, fd)
    \/ \E k \in FileIds, a \in CollectionNames, b \in CollectionNames,
          fi \in {"none", "quota"} :
           copy_file(k, a, b, fi)
    \/ \E q \in Queries, a \in CollectionNames, b \in CollectionNames,
          n \in 0..NumMedia, fx \in BulkFaults :
           bulk_move_files(q, a, b, n, fx)
    \/ \E q \in Queries, c \in CollectionNames \cup {None} :
           delete_files(q, c)

Spec == Init /\ [][Next]_vars

----------------------------------------------------------------------------
(* One search of a catalog that earlier save_file calls have filled. *)

\* what save_file calls left in a collection of the first database: the
\* media saved, in the order of the calls
FirstFills ==
    { << >>, <<MediaTable[1]>>, <<MediaTable[2], MediaTable[1]>> }

\* what the save_file calls that met a full first database left in a
\* collection of the second database
SecondFills == { << >>, <<MediaTable[1]>> }

\* the documents of the media ms as save_file stores them in partition p
SavedDocs(ms, p) == [i \in 1..Len(ms) |-> Document(ms[i], p)]

SearchInit ==
    /\ Users = NoUsers
    /\ SECOND_FILES_DATABASE_URL \in BOOLEAN
    /\ USE_CAPTION_FILTER \in BOOLEAN
    /\ now = 0
    /\ \E f \in [PartitionSet -> FirstFills] :
           db = [p \in PartitionSet |-> SavedDocs(f[p], p)]
    /\ \E f \in [PartitionSet -> SecondFills] :
           second_db = [p \in PartitionSet |->
                            IF SECOND_FILES_DATABASE_URL
                            THEN SavedDocs(f[p], p) ELSE << >>]
    /\ ret = NoCall
    /\ pc = [t \in Tasks |-> "idle"]
    /\ task = [t \in Tasks |-> NoCall]

\* the page sizes a caller passes (MAX_BTN, or its own)
Limits == {2, 5}

Offsets == 0..MaxOffset

\* the language tokens a caller passes; << >> for none
Langs == { << >>, <<"b">>, <<"B">> }

SearchNext ==
    /\ ret.op = "none"
    /\ \/ \E q \in Queries, c \in CollectionNames \cup {None}, n \in Limits,
             o \in Offsets, l \in Langs, t \in {"True", "NotImplementedError"} :
              get_search_results(q, c, n, o, l, t)
       \/ \E q \in Queries : get_search_counts(q)

SpecSearch == SearchInit /\ [][SearchNext]_vars

----------------------------------------------------------------------------
(* A caller that pages through a result: it calls get_search_results at
   offset 0 and then at each next_offset returned, with the same query,
   collection, page size and language, until next_offset is the empty
   marker.  The stores do not change. *)

\* the caller
Pager == CHOOSE t \in Tasks : \A u \in Tasks : t <= u

\* the language tokens the paging caller passes
WalkLangs == { << >>, <<"b">> }

walk_start(query, collection_name, max_results, lang) ==
    /\ pc[Pager] = "idle"
    /\ pc' = [pc EXCEPT ![Pager] = "paging"]
    /\ task' = [task EXCEPT ![Pager] =
                    [op |-> "walk", raised |-> FALSE, query |-> query,
                     collection_name |-> collection_name,
                     max_results |-> max_results, lang |-> lang,
                     offset |-> 0, offsets |-> << >>, pages |-> << >>]]
    /\ UNCHANGED <<Users, SECOND_FILES_DATABASE_URL, USE_CAPTION_FILTER, db,
                   second_db, now, ret>>

\* the call for the page at the caller's offset
walk_call(truth) ==
    LET w == task[Pager]
    IN  /\ pc[Pager] = "paging"
        /\ ret.op = "get_search_results" => ret.offset # w.offset
        /\ get_search_results(w.query, w.collection_name, w.max_results,
                              w.offset, w.lang, truth)

\* the caller takes the page returned and the offset of the next one
walk_take ==
    LET w == task[Pager]
    IN  /\ pc[Pager] = "paging"
        /\ ret.op = "get_search_results"
        /\ ret.offset = w.offset
        /\ IF ret.raised THEN
               /\ pc' = [pc EXCEPT ![Pager] = "raised"]
               /\ task' = [task EXCEPT ![Pager].raised = TRUE]
           ELSE
               /\ pc' = [pc EXCEPT ![Pager] =
                             IF ret.next_offset = << >> THEN "done"
                             ELSE "paging"]
               /\ task' = [task EXCEPT
                             ![Pager].pages = @ \o ret.files,
                             ![Pager].offsets = Append(@, ret.offset),
                             ![Pager].offset =
                                 IF ret.next_offset = << >> THEN @
                                 ELSE ret.next_offset[1]]
        /\ UNCHANGED <<Users, SECOND_FILES_DATABASE_URL, USE_CAPTION_FILTER,
                       db, second_db, now, ret>>

PagingNext ==
    \/ \E q \in Queries, c \in PartitionSet \cup {None}, n \in Limits,
          l \in WalkLangs : walk_start(q, c, n, l)
    \/ \E t \in {"True", "NotImplementedError"} : walk_call(t)
    \/ walk_take

SpecPagingSteps == SearchInit /\ [][PagingNext]_vars

\* each call is awaited and returns or raises, and the caller then goes on:
\* a walk that can take a step takes one
SpecPaging == SpecPagingSteps /\ WF_vars(PagingNext)

----------------------------------------------------------------------------
(* A search of all collections, delete_files of all collections with the
   same text, and a search or a count after it. *)

PurgeNext ==
    \/ /\ ret.op = "none"
       /\ \E q \in Queries, n \in Limits :
              get_search_results(q, None, n, 0, << >>, "True")
    \/ /\ ret.op = "get_search_results"
       /\ now = 0
       /\ delete_files(ret.query, None)
    \/ /\ ret.op = "delete_files"
       /\ \E n \in Limits :
              get_search_results(ret.query, None, n, 0, << >>, "True")
    \/ /\ ret.op = "delete_files"
       /\ get_search_counts(ret.query)

SpecPurge == SearchInit /\ [][PurgeNext]_vars

----------------------------------------------------------------------------
(* move_file and bulk_move_files store step by store step, run by tasks     *)
(* that share the stores.  A task may die between any two of its steps.     *)

MoveCall(op, what, from_collection, to_collection) ==
    [op |-> op, what |-> what,
     from_collection |-> from_collection, to_collection |-> to_collection,
     from_col |-> get_collection_by_name(from_collection),
     to_col |-> get_collection_by_name(to_collection),
     files |-> << >>, i |-> 1, moved_count |-> 0,
     success |-> FALSE, at |-> "idle"]

\* file = from_col.find_one({'_id': file_id}), and the two updates of file
move_find(t, file_id, from_collection, to_collection) ==
    LET call == MoveCall("move_file", file_id, from_collection, to_collection)
        found == find_one(db[call.from_col], file_id)
    IN  /\ pc[t] = "idle"
        /\ IF found = << >> THEN
               /\ pc' = [pc EXCEPT ![t] = "done"]
               /\ task' = [task EXCEPT ![t] = call]
           ELSE
               /\ pc' = [pc EXCEPT ![t] = "move_insert"]
               /\ task' = [task EXCEPT ![t] =
                      [call EXCEPT !.files =
                           <<Retarget(found[1], to_collection)>>]]
        /\ UNCHANGED <<Users, SECOND_FILES_DATABASE_URL, USE_CAPTION_FILTER, db,
                       second_db, now, ret>>

\* move_insert with the failure of the insert ignored: the delete follows
move_insert_Unchecked(t, fi) ==
    LET call == task[t]
        file == call.files[1]
    IN  /\ pc[t] = "move_insert"
        /\ IF insert_one(db[call.to_col], file, fi) = "ok"
           THEN db' = [db EXCEPT ![call.to_col] = Inserted(@, file)]
           ELSE db' = db
        /\ pc' = [pc EXCEPT ![t] = "move_delete"]
        /\ UNCHANGED <<Users, SECOND_FILES_DATABASE_URL, USE_CAPTION_FILTER,
                       second_db, now, ret, task>>

\* to_col.insert_one(file)
move_insert(t, fi) ==
    LET call == task[t]
        file == call.files[1]
    IN  /\ pc[t] = "move_insert"
        /\ IF insert_one(db[call.to_col], file, fi) = "ok" THEN
               /\ db' = [db EXCEPT ![call.to_col] = Inserted(@, file)]
               /\ pc' = [pc EXCEPT ![t] = "move_delete"]
           ELSE
               \* except Exception: return False
               /\ db' = db
               /\ pc' = [pc EXCEPT ![t] = "done"]
        /\ UNCHANGED <<Users, SECOND_FILES_DATABASE_URL, USE_CAPTION_FILTER,
                       second_db, now, ret, task>>

\* from_col.delete_one({'_id': file_id})
move_delete(t, fd) ==
    LET call == task[t]
    IN  /\ pc[t] = "move_delete"
        /\ IF fd = "none" THEN
               /\ db' = [db EXCEPT ![call.from_col] = delete_one(@, call.what)]
               /\ task' = [task EXCEPT ![t].success = TRUE]
           ELSE
               /\ db' = db
               /\ task' = task
        /\ pc' = [pc EXCEPT ![t] = "done"]
        /\ UNCHANGED <<Users, SECOND_FILES_DATABASE_URL, USE_CAPTION_FILTER,
                       second_db, now, ret>>

\* files = list(from_col.find(filter_query))
bulk_find(t, query, from_collection, to_collection) ==
    LET call == MoveCall("bulk_move_files", query, from_collection,
                         to_collection)
        files == find(db[call.from_col], NameFilter(query))
    IN  /\ pc[t] = "idle"
        /\ pc' = [pc EXCEPT ![t] =
                      IF files = << >> THEN "done" ELSE "bulk_insert"]
        /\ task' = [task EXCEPT ![t] =
                        [call EXCEPT !.files = files,
                                     !.success = (files = << >>)]]
        /\ UNCHANGED <<Users, SECOND_FILES_DATABASE_URL, USE_CAPTION_FILTER, db,
                       second_db, now, ret>>

\* where the loop goes after the i-th file
AfterFile(call) ==
    IF call.i + 1 > Len(call.files) THEN "done" ELSE "bulk_insert"

\* the two updates of file, and to_col.insert_one(file)
bulk_insert(t, fi) ==
    LET call == task[t]
        file == Retarget(call.files[call.i], call.to_collection)
        r == insert_one(db[call.to_col], file, fi)
    IN  /\ pc[t] = "bulk_insert"
        /\ IF r = "ok" THEN
               /\ db' = [db EXCEPT ![call.to_col] = Inserted(@, file)]
               /\ pc' = [pc EXCEPT ![t] = "bulk_delete"]
               /\ task' = task
           ELSE IF r = "dup" THEN
               \* except DuplicateKeyError: continue
               /\ db' = db
               /\ pc' = [pc EXCEPT ![t] = AfterFile(call)]
               /\ task' = [task EXCEPT ![t].i = @ + 1,
                                       ![t].success = (AfterFile(call) = "done")]
           ELSE
               \* nothing catches it: the call ends here
               /\ db' = db
               /\ pc' = [pc EXCEPT ![t] = "raised"]
               /\ task' = task
        /\ UNCHANGED <<Users, SECOND_FILES_DATABASE_URL, USE_CAPTION_FILTER,
                       second_db, now, ret>>

\* bulk_delete with the source read again: every document matching the
\* query is deleted, not the one of the snapshot
bulk_delete_Rescan(t, fd) ==
    LET call == task[t]
    IN  /\ pc[t] = "bulk_delete"
        /\ IF fd = "none" THEN
               /\ db' = [db EXCEPT ![call.from_col] =
                             delete_many(@, NameFilter(call.what))]
               /\ pc' = [pc EXCEPT ![t] = AfterFile(call)]
               /\ task' = [task EXCEPT ![t].i = @ + 1,
                                       ![t].moved_count = @ + 1,
                                       ![t].success = (AfterFile(call) = "done")]
           ELSE
               /\ db' = db
               /\ pc' = [pc EXCEPT ![t] = "raised"]
               /\ task' = task
        /\ UNCHANGED <<Users, SECOND_FILES_DATABASE_URL, USE_CAPTION_FILTER,
                       second_db, now, ret>>

\* from_col.delete_one({'_id': file['_id']}); moved_count += 1
bulk_delete(t, fd) ==
    LET call == task[t]
    IN  /\ pc[t] = "bulk_delete"
        /\ IF fd = "none" THEN
               /\ db' = [db EXCEPT ![call.from_col] =
                             delete_one(@, call.files[call.i]["_id"])]
               /\ pc' = [pc EXCEPT ![t] = AfterFile(call)]
               /\ task' = [task EXCEPT ![t].i = @ + 1,
                                       ![t].moved_count = @ + 1,
                                       ![t].success = (AfterFile(call) = "done")]
           ELSE
               /\ db' = db
               /\ pc' = [pc EXCEPT ![t] = "raised"]
               /\ task' = task
        /\ UNCHANGED <<Users, SECOND_FILES_DATABASE_URL, USE_CAPTION_FILTER,
                       second_db, now, ret>>

\* the process running task t dies before its next store step
crash(t) ==
    /\ pc[t] \in {"move_insert", "move_delete", "bulk_insert", "bulk_delete"}
    /\ pc' = [pc EXCEPT ![t] = "crashed"]
    /\ task' = [task EXCEPT ![t].at = pc[t]]
    /\ UNCHANGED <<Users, SECOND_FILES_DATABASE_URL, USE_CAPTION_FILTER, db,
                   second_db, now, ret>>

\* the catalogs the tasks start from, left there by earlier save_file calls;
\* ret remembers the keys the catalog held then, and those of them held by
\* one partition only
MoveInit ==
    /\ Users = NoUsers
    /\ SECOND_FILES_DATABASE_URL = FALSE
    /\ USE_CAPTION_FILTER = FALSE
    /\ now = 0
    /\ \E f \in [PartitionSet -> FirstFills] :
           /\ f["primary"] # << >>
           /\ f["archive"] = << >>
           /\ db = [p \in PartitionSet |-> SavedDocs(f[p], p)]
    /\ second_db = EmptyDb
    /\ ret = [op |-> "none", raised |-> FALSE,
              held |-> UNION {KeysOf(db[p]) : p \in PartitionSet},
              once |-> {k \in FileIds :
                          Cardinality({p \in PartitionSet :
                                         HasKey(db[p], k)}) = 1}]
    /\ pc = [t \in Tasks |-> "idle"]
    /\ task = [t \in Tasks |-> NoCall]

MoveNext ==
    \E t \in Tasks :
        \/ \E k \in FileIds, a \in PartitionSet, b \in PartitionSet :
               move_find(t, k, a, b)
        \/ \E fi \in {"none", "quota"} : move_insert(t, fi)
        \/ \E fd \in {"none", "conn"} : move_delete(t, fd)
        \/ \E q \in {<< >>, <<"a">>}, a \in PartitionSet, b \in PartitionSet :
               bulk_find(t, q, a, b)
        \/ \E fi \in {"none", "quota"} : bulk_insert(t, fi)
        \/ \E fd \in {"none", "conn"} : bulk_delete(t, fd)
        \/ crash(t)

SpecMove == MoveInit /\ [][MoveNext]_vars

----------------------------------------------------------------------------
(* One bulk_move_files call, taken store step by store step, while
   save_file calls arrive from other handlers. *)

\* the task that runs the bulk move
Mover == CHOOSE t \in Tasks : \A u \in Tasks : t <= u

SnapshotInit ==
    /\ MoveInit

SnapshotNext ==
    \/ \E q \in {<< >>, <<"a">>}, a \in PartitionSet, b \in PartitionSet :
           bulk_find(Mover, q, a, b)
    \/ \E fi \in {"none", "quota"} : bulk_insert(Mover, fi)
    \/ \E fd \in {"none", "conn"} : bulk_delete(Mover, fd)
    \/ \E m \in Media, c \in PartitionSet : save_file(m, c, "none", "none")

SpecSnapshot == SnapshotInit /\ [][SnapshotNext]_vars

----------------------------------------------------------------------------
(* Key derivation: unpack_new_file_id applied to two decoded handles. *)

\* the 32-bit fields (file_type, dc_id) and the 64-bit fields (media_id,
\* access_hash) of the decoded handles offered
Int32s == {0, 1, 256}
Int64s == {0, 1, -1, 16777216}

DecodedHandles == Int32s \X Int32s \X Int64s \X Int64s

\* unpack_new_file_id called on decoded and on decoded2; ret keeps the
\* packed record and the run-length compressed bytes r of each call
derive_keys(decoded, decoded2) ==
    /\ ret' = [op |-> "unpack_new_file_id", raised |-> FALSE,
               decoded |-> decoded, decoded2 |-> decoded2,
               packed |-> pack(decoded), packed2 |-> pack(decoded2),
               r |-> EncodeLoop(pack(decoded) \o <<22>> \o <<4>>, 1, 0),
               r2 |-> EncodeLoop(pack(decoded2) \o <<22>> \o <<4>>, 1, 0),
               file_id |-> unpack_new_file_id(decoded),
               file_id2 |-> unpack_new_file_id(decoded2)]
    /\ UNCHANGED <<Users, SECOND_FILES_DATABASE_URL, USE_CAPTION_FILTER, db,
                   second_db, now, pc, task>>

CodecInit ==
    /\ Users = NoUsers
    /\ SECOND_FILES_DATABASE_URL = FALSE
    /\ USE_CAPTION_FILTER = FALSE
    /\ db = EmptyDb
    /\ second_db = EmptyDb
    /\ now = 0
    /\ ret = NoCall
    /\ pc = [t \in Tasks |-> "idle"]
    /\ task = [t \in Tasks |-> NoCall]

CodecNext ==
    /\ ret.op = "none"
    /\ \E d \in DecodedHandles, e \in DecodedHandles : derive_keys(d, e)

SpecCodec == CodecInit /\ [][CodecNext]_vars

----------------------------------------------------------------------------
(* The query predicate: the filter built from a query text, applied to one  *)
(* stored document.                                                         *)

\* the texts of at most n characters over an alphabet
Texts(alphabet, n) == UNION {[1..k -> alphabet] : k \in 0..n}

\* the stored names and the query texts offered
StoredNames == Texts({"a", "b", "A", "_", ".", " "}, MaxNameLen)
QueryTexts == Texts({"a", "b", "A", " "}, MaxQueryLen)
StoredCaptions == { << >>, <<"a">> }

\* the filters of get_search_results / get_search_counts and of
\* delete_files / bulk_move_files built from query, each applied by the
\* store to the document with this name and caption
match_document(query, file_name, caption) ==
    LET doc == [file_name |-> file_name, caption |-> caption]
    IN  /\ ret' = [op |-> "find", raised |-> FALSE, query |-> query,
                   file_name |-> file_name, caption |-> caption,
                   search |-> Satisfies(doc, SearchFilter(query)),
                   by_name |-> Satisfies(doc, NameFilter(query))]
        /\ UNCHANGED <<Users, SECOND_FILES_DATABASE_URL, USE_CAPTION_FILTER, db,
                       second_db, now, pc, task>>

PredicateInit ==
    /\ Users = NoUsers
    /\ SECOND_FILES_DATABASE_URL = FALSE
    /\ USE_CAPTION_FILTER \in BOOLEAN
    /\ db = EmptyDb
    /\ second_db = EmptyDb
    /\ now = 0
    /\ ret = NoCall
    /\ pc = [t \in Tasks |-> "idle"]
    /\ task = [t \in Tasks |-> NoCall]

PredicateNext ==
    /\ ret.op = "none"
    /\ \E q \in QueryTexts, n \in StoredNames, c \in StoredCaptions :
           match_document(q, n, c)

SpecPredicate == PredicateInit /\ [][PredicateNext]_vars

----------------------------------------------------------------------------
(* The access gate: role operations on the users collection, as time passes *)

AccessInit ==
    /\ Users = NoUsers
    /\ SECOND_FILES_DATABASE_URL = FALSE
    /\ USE_CAPTION_FILTER = FALSE
    /\ db = EmptyDb
    /\ second_db = EmptyDb
    /\ now = 0
    /\ ret = NoCall
    /\ pc = [t \in Tasks |-> "idle"]
    /\ task = [t \in Tasks |-> NoCall]

AccessNext ==
    \/ \E id \in UserIds : add_user(id)
    \/ \E id \in UserIds : delete_user(id)
    \/ \E id \in UserIds, r \in Roles, e \in ExpireDates : set_role(id, r, e)
    \/ \E id \in UserIds : has_file_access(id)
    \/ \E id \in UserIds : get_search_access(id)
    \/ clock_tick

SpecAccess == AccessInit /\ [][AccessNext]_vars

----------------------------------------------------------------------------
(* The properties checked. *)

Range(seq) == {seq[i] : i \in 1..Len(seq)}

Min(a, b) == IF a <= b THEN a ELSE b

\* partition p holds key id in database d1 (first) or d2 (second)
HoldsIn(d1, d2, p, id) == HasKey(d1[p], id) \/ HasKey(d2[p], id)

\* the documents with key id in a collection
WithKey(col, id) == SelectSeq(col, LAMBDA d : d["_id"] = id)

\* this step is a call of op
Called(op) == ret'.op = op /\ now' = now + 1

\* C1: Insert is idempotent per partition: for a partition with its store
\* pair, when a save_file call that returned 'suc' is followed by a
\* save_file call with the same key and the same partition, the primary
\* store free to signal a capacity failure at either call, the second call
\* returns 'dup' and the number of documents
\* with that key in the partition's store pair is the same after it: one
\* more over the two calls.  (Stated as the claim; the code violates it.)
C1_InsertIdempotent ==
    [][ ( /\ ret.op = "save_file"
          /\ ret.status = "suc"
          /\ Called("save_file")
          /\ ret'.file_id = ret.file_id
          /\ ret'.collection_name = ret.collection_name
          /\ ret'.signal \in {"ok", "dup", "quota"}
          /\ ret'.signal2 \in {None, "ok", "dup"}
          /\ SECOND_FILES_DATABASE_URL )
        => LET p == get_collection_by_name(ret.collection_name)
           IN  /\ ret'.status = "dup"
               /\ CountKey(db', second_db', p, ret.file_id)
                    = CountKey(db, second_db, p, ret.file_id) ]_vars

\* C2 as stated: after move_file(k, A, B) returns success, get_file_details(k)
\* returns a record whose key is k and whose collection_type is B.
C2_LookupReturnsTarget ==
    (ret.op = "move_file" /\ ret.success)
    => LET r == get_file_details(ret.file_id)
       IN  /\ r # << >>
           /\ r[1]["_id"] = ret.file_id
           /\ r[1]["collection_type"] = ret.to_collection

\* the partitions whose first-database collection get_file_details scans
\* before that of partition p
ScannedBefore(p) ==
    {Partitions[i] : i \in {j \in 1..Len(Partitions) :
         \E n \in (j + 1)..Len(Partitions) : Partitions[n] = p}}

\* C2, amended: after move_file(k, A, B) returns success, B's collection
\* holds a record with key k and collection_type B, get_file_details(k)
\* returns a record with key k, and that record has collection_type B
\* whenever no partition scanned before B holds k in its first-database
\* collection.
C2_MoveKeyPreserving ==
    (ret.op = "move_file" /\ ret.success)
    => LET k == ret.file_id
           to_col == get_collection_by_name(ret.to_collection)
           r == get_file_details(k)
           here == find_one(db[to_col], k)
       IN  /\ r # << >>
           /\ r[1]["_id"] = k
           /\ Len(here) = 1
           /\ here[1]["_id"] = k
           /\ here[1]["collection_type"] = ret.to_collection
           /\ (\A p \in ScannedBefore(to_col) : ~ HasKey(db[p], k))
                => r[1]["collection_type"] = ret.to_collection

\* a move into a partition that is not scanned first has succeeded, and the
\* lookup returns the record moved
C2_Witness ==
    /\ ret.op = "move_file"
    /\ ret.success
    /\ get_collection_by_name(ret.to_collection) = "archive"
    /\ get_file_details(ret.file_id)[1]["collection_type"] = "archive"
    /\ "moved_date" \in DOMAIN get_file_details(ret.file_id)[1]

\* C3: Copy rejects collision: whenever partition B holds a record with key
\* k (in either of its stores) and partition A holds k (here: in the store
\* copy_file reads), copy_file(k, A, B) returns 'File already exists in
\* target collection' and no store is written.  (Stated as the claim; the
\* code violates it.)
C3_CopyRejectsCollision ==
    [][ ( /\ Called("copy_file")
          /\ HasKey(db[get_collection_by_name(ret'.from_collection)],
                    ret'.file_id)
          /\ HoldsIn(db, second_db,
                     get_collection_by_name(ret'.to_collection), ret'.file_id) )
        => /\ ret'.message = "File already exists in target collection"
           /\ db' = db
           /\ second_db' = second_db ]_vars

\* the records of partition p, over both databases
RecordsOf(d1, d2, p) == Range(d1[p]) \cup Range(d2[p])

\* C4: Bulk move partial success: a bulk_move_files(text, A, B) call that
\* returns gives the number of matched records of A whose key B did not
\* hold; each of those is afterwards in B with collection_type B and absent
\* from A; every matched record whose key B held is still in A unchanged,
\* and B's records for that key are unchanged.  (Stated as the claim; the
\* code violates it.)
C4_BulkMovePartial ==
    [][ ( Called("bulk_move_files") /\ ~ ret'.raised )
        => LET A == get_collection_by_name(ret'.from_collection)
               B == get_collection_by_name(ret'.to_collection)
               matched == {d \in RecordsOf(db, second_db, A) :
                             Satisfies(d, NameFilter(ret'.query))}
               free == {d \in matched : ~ HoldsIn(db, second_db, B, d["_id"])}
           IN  /\ ret'.moved_count = Cardinality(free)
               /\ \A d \in free :
                    /\ \E e \in RecordsOf(db', second_db', B) :
                         /\ e["_id"] = d["_id"]
                         /\ e["collection_type"] = ret'.to_collection
                    /\ ~ HoldsIn(db', second_db', A, d["_id"])
               /\ \A d \in matched \ free :
                    /\ d \in RecordsOf(db', second_db', A)
                    /\ WithKey(db'[B], d["_id"]) = WithKey(db[B], d["_id"])
                    /\ WithKey(second_db'[B], d["_id"])
                         = WithKey(second_db[B], d["_id"]) ]_vars

\* C6: Overflow retry on insert: save_file writes to (and tries) the
\* second database if and only if the insert into the first failed with a
\* capacity signal and the second database is configured; a capacity
\* signal with no second database returns 'err' and changes no store.
\* (Stated as the claim; the code violates it.)
C6_OverflowRetry ==
    [][ Called("save_file")
        => /\ (ret'.signal2 # None \/ second_db' # second_db)
                => (ret'.signal = "quota" /\ SECOND_FILES_DATABASE_URL)
           /\ (ret'.signal = "quota" /\ SECOND_FILES_DATABASE_URL)
                => /\ ret'.signal2 # None
                   /\ ret'.signal2 = "ok" => second_db' # second_db
           /\ (ret'.signal = "quota" /\ ~ SECOND_FILES_DATABASE_URL)
                => /\ ret'.status = "err"
                   /\ ~ ret'.raised
                   /\ db' = db
                   /\ second_db' = second_db ]_vars

\* C7: Catalog mutations never raise for expected conditions: when the
\* stores signal only duplicate keys and capacity failures, save_file,
\* move_file, copy_file and bulk_move_files return an outcome: no capacity
\* signal leaves the call as an uncaught fault.  (Stated as the claim; the
\* code violates it.)
C7_NeverRaises ==
    ~ ( /\ ret.op \in {"save_file", "move_file", "copy_file", "bulk_move_files"}
        /\ ret.raised
        /\ ret.status = "quota"
        /\ ret.op = "save_file" => ret.signal = "quota" )

\* C8: Pagination window: a get_search_results call that returns gives
\* exactly the records at positions [offset, min(offset+limit, total)) of
\* the merged (and language-filtered) list, in order, total as the length
\* of that list, and next_offset = offset+limit when offset+limit < total,
\* the empty marker otherwise.
C8_PaginationWindow ==
    (ret.op = "get_search_results" /\ ~ ret.raised)
    => LET total == Len(ret.listed)
           hi == Min(ret.offset + ret.max_results, total)
       IN  /\ ret.total_results = total
           /\ Len(ret.files) = (IF hi > ret.offset THEN hi - ret.offset ELSE 0)
           /\ \A i \in 1..Len(ret.files) :
                ret.files[i] = ret.listed[ret.offset + i]
           /\ ret.next_offset =
                (IF ret.offset + ret.max_results < total
                 THEN <<ret.offset + ret.max_results>> ELSE << >>)

\* total = 7 and limit = 5: the second page has 2 records and no next_offset
C8_Witness ==
    /\ ret.op = "get_search_results"
    /\ ~ ret.raised
    /\ ret.total_results = 7
    /\ ret.max_results = 5
    /\ ret.offset = 5
    /\ Len(ret.files) = 2
    /\ ret.next_offset = << >>

\* the records without the tag the search adds
Untagged(r) == [x \in (DOMAIN r) \ {"source_collection"} |-> r[x]]

\* partition p's matches: those of its first-database collection, then
\* those of its second-database collection when one is configured
PartitionMatches(p, filter_query) ==
    SelectSeq(db[p], LAMBDA d : Satisfies(d, filter_query))
      \o (IF SECOND_FILES_DATABASE_URL
          THEN SelectSeq(second_db[p], LAMBDA d : Satisfies(d, filter_query))
          ELSE << >>)

\* C9: Search merge order and provenance: a search of one partition has,
\* before pagination, that partition's primary-store matches followed by its
\* overflow-store matches when an overflow store is configured; a search of
\* all partitions has the concatenation of these over primary, clouds,
\* archive; every record carries as source_collection the partition whose
\* store holds it.  (Stated as the claim; the code violates it: with an
\* overflow store configured the search of one partition truth-tests the
\* collection object and raises where the collection refuses the test.)
C9_MergeOrder ==
    ( /\ ret.op = "get_search_results"
      /\ ret.collection_name \in PartitionSet \cup {None} )
    => /\ ~ ret.raised
       /\ LET fq == SearchFilter(ret.query)
               expected ==
                   IF ret.collection_name # None
                   THEN PartitionMatches(ret.collection_name, fq)
                   ELSE PartitionMatches("primary", fq)
                          \o PartitionMatches("clouds", fq)
                          \o PartitionMatches("archive", fq)
           IN  /\ Len(ret.results) = Len(expected)
               /\ \A i \in 1..Len(expected) :
                    /\ Untagged(ret.results[i]) = expected[i]
                    /\ Untagged(ret.results[i])
                         \in RecordsOf(db, second_db,
                                       ret.results[i]["source_collection"])

\* C10: Language filter: with a language token, get_search_results keeps
\* exactly the merged records whose name contains the token, letter case
\* ignored on both sides, and total and the page are taken from this
\* filtered list.  (Stated as the claim; the code violates it.)
C10_LanguageFilter ==
    (ret.op = "get_search_results" /\ ~ ret.raised /\ ret.lang # << >>)
    => LET kept == SelectSeq(ret.results, LAMBDA d :
                       Contains(Lower(ret.lang), Lower(d["file_name"])))
       IN  /\ ret.listed = kept
           /\ ret.total_results = Len(kept)
           /\ ret.files = SliceTo(SliceFrom(kept, ret.offset), ret.max_results)

\* C5: Move never loses a record: whatever the interleaving of the tasks'
\* store steps and wherever tasks die, every key a partition held at the
\* start is held by some partition; and a task that is (or died) between
\* its insert and its delete, no other task having started, leaves the key
\* in both the source and the target.
C5_MoveNeverLoses ==
    /\ \A k \in ret.held : \E p \in PartitionSet : HoldsIn(db, second_db, p, k)
    /\ \A t \in Tasks :
         ( /\ \/ pc[t] \in {"move_delete", "bulk_delete"}
              \/ pc[t] = "crashed" /\ task[t].at \in {"move_delete", "bulk_delete"}
           /\ \A u \in Tasks \ {t} : pc[u] = "idle" )
         => /\ HasKey(db[task[t].from_col], task[t].files[task[t].i]["_id"])
            /\ HasKey(db[task[t].to_col], task[t].files[task[t].i]["_id"])

\* a task died between the insert and the delete of a move
C5_Witness ==
    \E t \in Tasks :
        /\ pc[t] = "crashed"
        /\ task[t].at = "move_delete"
        /\ HasKey(db[task[t].from_col], task[t].what)
        /\ HasKey(db[task[t].to_col], task[t].what)
        /\ \E u \in Tasks : pc[u] = "done" /\ task[u].success

\* the bytes a run-length compressed sequence r stands for, from position i
RECURSIVE RunLengthDecode(_, _)
RunLengthDecode(r, i) ==
    IF i > Len(r) THEN << >>
    ELSE IF r[i] = 0 /\ i < Len(r)
    THEN [j \in 1..r[i + 1] |-> 0] \o RunLengthDecode(r, i + 2)
    ELSE <<r[i]>> \o RunLengthDecode(r, i + 1)

\* C11: Key derivation is deterministic and injective: the keys of two
\* decoded handles are equal if and only if the handles are equal; the
\* run-length compressed bytes of two packed records are equal only if the
\* records are, and they stand for the whole 24-byte record followed by the
\* markers 22 and 4, a trailing run of zero bytes included.
C11_KeyInjective ==
    ret.op = "unpack_new_file_id"
    => /\ (ret.file_id = ret.file_id2) <=> (ret.decoded = ret.decoded2)
       /\ (ret.r = ret.r2) <=> (ret.packed = ret.packed2)
       /\ Len(ret.packed) = 24
       /\ RunLengthDecode(ret.r, 1) = ret.packed \o <<22, 4>>

\* two different handles whose records end in a run of zero bytes and
\* differ only in where the zero bytes are
C11_Witness ==
    /\ ret.op = "unpack_new_file_id"
    /\ ret.decoded = <<1, 1, 0, 0>>
    /\ ret.decoded2 = <<1, 256, 0, 0>>
    /\ ret.packed[24] = 0
    /\ ret.file_id # ret.file_id2

\* C12: findByKey precedence: get_file_details(k) returns None if and only
\* if no store of any partition holds k; a record returned has key k; when
\* the partition the record comes from holds k in both of its stores, the
\* record is the primary store's; and no overflow store is read while a
\* primary store holds k.
C12_FindByKeyPrecedence ==
    \A k \in FileIds :
        LET r == get_file_details(k)
        IN  /\ (r = << >>)
                 <=> (\A p \in PartitionSet : ~ HoldsIn(db, second_db, p, k))
            /\ r # << >> =>
                 /\ r[1]["_id"] = k
                 /\ \A p \in PartitionSet :
                      ( /\ HasKey(db[p], k)
                        /\ HasKey(second_db[p], k)
                        /\ r[1] \in RecordsOf(db, second_db, p) )
                      => r[1] \in Range(db[p])
                 /\ (\E p \in PartitionSet : HasKey(db[p], k))
                      => (\E p \in PartitionSet : r[1] \in Range(db[p]))

\* a partition holds a key in both of its stores, with different records,
\* and the lookup returns the primary store's
C12_Witness ==
    \E k \in FileIds, p \in PartitionSet :
        /\ HasKey(db[p], k)
        /\ HasKey(second_db[p], k)
        /\ get_file_details(k)[1] \in Range(db[p])
        /\ get_file_details(k)[1] \notin Range(second_db[p])

\* the number of documents of a collection that satisfy a filter
Matching(col, filter_query) ==
    Cardinality({i \in 1..Len(col) : Satisfies(col[i], filter_query)})

\* C13: deleteMatching has dual-store semantics and a local frame:
\* delete_files(text, P) for a partition P returns, and afterwards each
\* store of P holds exactly its records that do not match, in their order;
\* the number returned is the number of matching records the two stores of
\* P held; the stores of the other partitions are unchanged.  With no
\* partition given the same holds with P ranging over all three.
C13_DeleteDualStore ==
    [][ ( /\ Called("delete_files")
          /\ ret'.collection_name \in PartitionSet \cup {None} )
        => LET fq == NameFilter(ret'.query)
               P == IF ret'.collection_name = None THEN PartitionSet
                    ELSE {ret'.collection_name}
               held(p) == IF p \in P
                          THEN Matching(db[p], fq) + Matching(second_db[p], fq)
                          ELSE 0
           IN  /\ ~ ret'.raised
               /\ \A p \in P :
                    /\ db'[p] = SelectSeq(db[p], LAMBDA d : ~ Satisfies(d, fq))
                    /\ second_db'[p] =
                         SelectSeq(second_db[p], LAMBDA d : ~ Satisfies(d, fq))
               /\ \A p \in PartitionSet \ P :
                    db'[p] = db[p] /\ second_db'[p] = second_db[p]
               /\ ret'.total_deleted
                    = held("primary") + held("clouds") + held("archive") ]_vars

\* a delete in one partition has removed a record from its primary store
\* and a record from its overflow store
C13_Witness ==
    /\ ret.op = "delete_files"
    /\ ret.collection_name \in PartitionSet
    /\ ~ ret.raised
    /\ "result2" \in DOMAIN ret
    /\ ret.result2 = 1
    /\ ret.total_deleted = 2

\* the collection names a call was given
NamesOf(call) ==
    IF call.op \in {"save_file", "delete_files"} THEN {call.collection_name}
    ELSE {call.from_collection, call.to_collection}

\* C14: Unknown partition names fall back to 'primary' rather than failing:
\* a save_file, delete_files, move_file, copy_file or bulk_move_files call
\* given a name outside primary, clouds, archive changes no store of a
\* partition other than primary and those it names; and delete_files with
\* such a name returns, leaving in the primary store and in the overflow
\* store of primary exactly their non-matching records, as the call with
\* the name 'primary' does.  (Stated as the claim; the code violates it.)
C14_UnknownNameFallsBack ==
    [][ ( /\ now' = now + 1
          /\ ret'.op \in {"save_file", "delete_files", "move_file",
                          "copy_file", "bulk_move_files"}
          /\ "other" \in NamesOf(ret') )
        => LET touched == {get_collection_by_name(n) : n \in NamesOf(ret')}
           IN  /\ \A p \in PartitionSet \ touched :
                    db'[p] = db[p] /\ second_db'[p] = second_db[p]
               /\ ret'.op = "delete_files" =>
                    LET fq == NameFilter(ret'.query)
                    IN  /\ ~ ret'.raised
                        /\ db'["primary"] =
                             SelectSeq(db["primary"],
                                       LAMBDA d : ~ Satisfies(d, fq))
                        /\ second_db'["primary"] =
                             SelectSeq(second_db["primary"],
                                       LAMBDA d : ~ Satisfies(d, fq)) ]_vars

\* the characters between tokens: whitespace and the separators . + - _
IsSeparating(c) == c = " " \/ c \in Separators

\* t occurs in s at position i, letter case ignored
OccursNoCase(t, s, i) ==
    /\ i >= 1
    /\ i + Len(t) - 1 <= Len(s)
    /\ \A j \in 1..Len(t) : Lower(s)[i + j - 1] = Lower(t)[j]

\* position i of s is the start or the end of s, or lies between a letter
\* and a character that is not a letter or digit
AtWordBoundary(s, i) ==
    LET before == i > 1 /\ (s[i - 1] \in Letters \/ s[i - 1] = "_")
        after == i <= Len(s) /\ (s[i] \in Letters \/ s[i] = "_")
    IN  before # after

\* the single token t occurs in s bounded on each side by a word boundary
\* or by one of the separators . + - _
BoundedOccurrence(t, s) ==
    \E i \in 1..Len(s) :
        /\ OccursNoCase(t, s, i)
        /\ AtWordBoundary(s, i) \/ (i > 1 /\ s[i - 1] \in Separators)
        /\ \/ AtWordBoundary(s, i + Len(t))
           \/ (i + Len(t) <= Len(s) /\ s[i + Len(t)] \in Separators)

\* from position k of the query q and position i of s: the characters of q
\* occur in s in order, each space of q standing for a non-empty run of
\* whitespace / separator characters of s
RECURSIVE TokensInOrder(_, _, _, _)
TokensInOrder(q, k, s, i) ==
    IF k > Len(q) THEN TRUE
    ELSE IF q[k] = " " THEN
        \E j \in i..Len(s) :
            /\ \A m \in i..j : IsSeparating(s[m])
            /\ TokensInOrder(q, k + 1, s, j + 1)
    ELSE
        /\ i <= Len(s)
        /\ LowerChar(s[i]) = LowerChar(q[k])
        /\ TokensInOrder(q, k + 1, s, i + 1)

\* C15: Query predicate boundary rules: the predicate built from a
\* single-token text matches exactly the names in which the token occurs
\* bounded on each side by a word boundary or one of . + - _ ; the
\* predicate built from a multi-token text matches exactly the names in
\* which the tokens occur in order separated by runs of whitespace /
\* separator characters; letter case is ignored; search and delete / bulk
\* move build the same name predicate.  (Stated as the claim; the code
\* violates it.)
C15_PredicateBoundaries ==
    ret.op = "find"
    => LET q == Strip(ret.query)
           s == ret.file_name
       IN  /\ (q # << >> /\ " " \notin Range(q))
                => (ret.by_name <=> BoundedOccurrence(q, s))
           /\ " " \in Range(q)
                => (ret.by_name
                      <=> \E i \in 1..(Len(s) + 1) : TokensInOrder(q, 1, s, i))
           /\ ~ USE_CAPTION_FILTER => ret.search = ret.by_name

\* C16: Browse-all: the predicates built from an empty or whitespace-only
\* query text, by search and by delete / bulk move, match every stored
\* document whatever its name, the empty name included.  (Stated as the
\* claim; the code violates it.)
C16_BrowseAll ==
    (ret.op = "find" /\ \A i \in 1..Len(ret.query) : ret.query[i] = " ")
    => (ret.search /\ ret.by_name)

\* user u exists
Exists(u) == Users[u] # << >>

\* the role name stored for an existing user u
RoleOf(u) == Users[u][1].role.role

\* C17: Access gate with expiry downgrade: has_file_access(u) returns true
\* iff u exists and is admin, or premium with no expiry or an expiry
\* strictly later than now; when it finds a premium role whose expiry is
\* not later than now it returns false and the stored role becomes public
\* with an empty search_access and no expiry, otherwise it changes
\* nothing; and a public role stays public, every has_file_access(u)
\* returning false, until set_role grants u admin or premium.
C17_AccessGate ==
    [][ /\ \A u \in UserIds :
             (ret'.op = "has_file_access" /\ ret'.user_id = u /\ now' = now)
             => LET expire == Users[u][1].role.premium_expire
                    lapsed == /\ Exists(u)
                              /\ RoleOf(u) = "premium"
                              /\ expire # << >>
                              /\ expire[1] <= now
                IN  /\ ret'.result
                         <=> /\ Exists(u)
                             /\ \/ RoleOf(u) = "admin"
                                \/ /\ RoleOf(u) = "premium"
                                   /\ expire = << >> \/ expire[1] > now
                    /\ lapsed =>
                         /\ ~ ret'.result
                         /\ Users'[u][1].role.role = "public"
                         /\ Users'[u][1].role.search_access = << >>
                         /\ Users'[u][1].role.premium_expire = << >>
                         /\ \A v \in UserIds \ {u} : Users'[v] = Users[v]
                    /\ ~ lapsed => Users' = Users
        /\ \A u \in UserIds :
             (Exists(u) /\ RoleOf(u) = "public")
             => /\ (ret'.op = "has_file_access" /\ ret'.user_id = u
                      /\ now' = now)
                     => ~ ret'.result
                /\ (Users'[u] # << >> /\ Users'[u][1].role.role # "public")
                     => /\ ret'.op = "set_role"
                        /\ ret'.user_id = u
                        /\ ret'.role \in {"admin", "premium"} ]_vars

\* a check has found a premium role expired and has downgraded it
C17_Witness ==
    /\ ret.op = "has_file_access"
    /\ ret.downgrade
    /\ ~ ret.result
    /\ Users[ret.user_id][1].role = role_data("public", << >>)
    /\ now > 0

\* C18: searchCounts agrees with search: get_search_counts(text) gives for
\* each partition the number of matching records of its primary store plus
\* its overflow store, and changes no store; get_search_results(text) with
\* no partition gives the same per-partition counts, and with no language
\* filter they sum to its total.
C18_CountsAgree ==
    [][ LET fq == SearchFilter(ret'.query)
            n(p) == Matching(db[p], fq) + Matching(second_db[p], fq)
        IN  /\ (ret.op = "none" /\ ret'.op = "get_search_counts")
                 => /\ \A p \in PartitionSet : ret'.counts[p] = n(p)
                    /\ DOMAIN ret'.counts = PartitionSet
                    /\ db' = db
                    /\ second_db' = second_db
            /\ ( /\ ret.op = "none"
                 /\ ret'.op = "get_search_results"
                 /\ ret'.collection_name = None
                 /\ ~ ret'.raised )
                 => /\ \A p \in PartitionSet : ret'.counts[p] = n(p)
                    /\ ret'.lang = << >>
                         => ret'.total_results
                              = n("primary") + n("clouds") + n("archive") ]_vars

\* counts taken over both stores of a partition, with a record that does
\* not match left out
C18_Witness ==
    /\ ret.op = "get_search_counts"
    /\ Len(db["primary"]) = 1
    /\ Len(second_db["primary"]) = 1
    /\ ret.counts["primary"] = 2
    /\ Len(db["clouds"]) = 2
    /\ ret.counts["clouds"] = 1

\* C19: Per-partition key uniqueness across the store pair: after any
\* sequence of save_file, move_file, copy_file, bulk_move_files and
\* delete_files calls no key is held by both the primary store and the
\* overflow store of one partition.  (Stated as the claim; the code
\* violates it.)
C19_KeyUniquePerPartition ==
    \A p \in PartitionSet :
        KeysOf(db[p]) \cap KeysOf(second_db[p]) = {}

\* C20: Move leaves state unchanged on a non-Moved outcome: whenever
\* move_file(k, A, B) returns without success (source missing, target
\* already holding k, A = B, or a store fault at the insert or at the
\* delete), every store holds what it held before the call.  (Stated as
\* the claim; the code violates it.)
C20_FailedMoveChangesNothing ==
    [][ (Called("move_file") /\ ~ ret'.success)
        => (db' = db /\ second_db' = second_db) ]_vars

\* C21: bulkMove count under interleaving: whatever other move_file and
\* bulk_move_files calls run concurrently on the same records, a
\* bulk_move_files call counts a record only when its delete removed the
\* record from the source: each step that adds one to moved_count takes one
\* document out of the source collection.  (Stated as the claim; the code
\* violates it.)
C21_CountsOnlyRemoved ==
    [][ \A t \in Tasks :
          ( /\ pc[t] = "bulk_delete"
            /\ task'[t].moved_count = task[t].moved_count + 1 )
          => Len(db'[task[t].from_col]) = Len(db[task[t].from_col]) - 1 ]_vars

\* C22: bulkMove acts on a fixed snapshot: what a bulk_move_files call may
\* move is fixed by its one read of the source.  While save_file calls
\* arrive, each store step of the call keeps the snapshot as read, leaves in
\* the source, unmodified, every record that is not of the snapshot (a
\* matching record saved after the read included), and adds to moved_count
\* exactly the number of snapshot records the step took out of the source.
C22_FixedSnapshot ==
    [][ \A t \in Tasks :
          ( /\ task[t].op = "bulk_move_files"
            /\ pc[t] \in {"bulk_insert", "bulk_delete"}
            /\ pc'[t] # pc[t] \/ task'[t] # task[t] )
          => LET call == task[t]
                 snapshot == Range(call.files)
                 source == Range(db[call.from_col])
                 source2 == Range(db'[call.from_col])
             IN  /\ task'[t].files = call.files
                 /\ (source \ snapshot) \subseteq source2
                 /\ task'[t].moved_count - call.moved_count
                        = Cardinality((source \cap snapshot) \ source2) ]_vars

\* a bulk move has returned having moved its whole snapshot, and the source
\* holds a matching record that is not of the snapshot: one saved after the
\* read
C22_Witness ==
    \E t \in Tasks :
        /\ task[t].op = "bulk_move_files"
        /\ pc[t] = "done"
        /\ task[t].from_col # task[t].to_col
        /\ task[t].moved_count = Len(task[t].files)
        /\ task[t].moved_count >= 1
        /\ \E d \in Range(db[task[t].from_col]) :
               /\ Satisfies(d, NameFilter(task[t].what))
               /\ d["_id"] \notin KeysOf(task[t].files)
               /\ d["added_date"] >= 1

\* the number of pages of a list of total records cut max_results at a time
PageCount(total, max_results) ==
    IF total = 0 THEN 1 ELSE (total + max_results - 1) \div max_results

\* C23: Paging terminates and covers the result set exactly once: on an
\* unchanged store, a caller that starts at offset 0 with a fixed limit and
\* follows next_offset asks for strictly increasing offsets; its walk ends
\* (with the empty marker, or with the exception of a call that raises);
\* and when it ends with the empty marker it has made
\* max(1, ceil(total / limit)) calls and the concatenation of its pages is
\* the full merged list, record for record.
C23_PagingCovers ==
    /\ [] ( task[Pager].op = "walk" =>
              LET w == task[Pager]
              IN  /\ \A i \in 1..Len(w.offsets), j \in 1..Len(w.offsets) :
                         i < j => w.offsets[i] < w.offsets[j]
                  /\ Len(w.offsets) >= 1 => w.offsets[1] = 0
                  /\ pc[Pager] = "done" =>
                         /\ w.pages = ret.listed
                         /\ Len(w.offsets)
                              = PageCount(ret.total_results, w.max_results) )
    /\ <> (pc[Pager] \in {"done", "raised"})

\* a walk of three pages has ended: five records, two at a time
C23_Witness ==
    /\ pc[Pager] = "done"
    /\ task[Pager].op = "walk"
    /\ task[Pager].max_results = 2
    /\ task[Pager].offsets = <<0, 2, 4>>
    /\ Len(task[Pager].pages) = 5
    /\ task[Pager].pages = ret.listed

\* every record of the stores d1 (first database) and d2 (second database)
\* of a partition names that partition in collection_type
Located(d1, d2) ==
    \A p \in PartitionSet :
        \A d \in Range(d1[p]) \cup Range(d2[p]) : d["collection_type"] = p

\* C24: Partition field tracks location: a save_file, move_file, copy_file
\* or bulk_move_files call given names among primary, clouds, archive, made
\* when every record names the partition that holds it, leaves every record
\* naming the partition that holds it, also when a fault stops the move
\* between its insert and its delete.  With the empty stores of the start
\* this gives the property after any sequence of such calls.
C24_TypeTracksLocation ==
    [][ ( /\ now' = now + 1
          /\ ret'.op \in {"save_file", "move_file", "copy_file",
                          "bulk_move_files"}
          /\ NamesOf(ret') \subseteq PartitionSet
          /\ Located(db, second_db) )
        => Located(db', second_db') ]_vars

\* a move_file from one partition to another was stopped after its insert:
\* the key is in both, each record naming its own partition
C24_Witness ==
    /\ ret.op = "move_file"
    /\ ~ ret.success
    /\ {ret.from_collection, ret.to_collection} \subseteq PartitionSet
    /\ ret.from_collection # ret.to_collection
    /\ HasKey(db[ret.from_collection], ret.file_id)
    /\ HasKey(db[ret.to_collection], ret.file_id)
    /\ "moved_date" \in DOMAIN find_one(db[ret.to_collection], ret.file_id)[1]
    /\ find_one(db[ret.to_collection], ret.file_id)[1]["collection_type"]
          = ret.to_collection
    /\ Len(db[ret.to_collection]) >= 2
    /\ Located(db, second_db)

\* C25: Delete and search use the same predicate: with the caption toggle
\* on or off, delete_files(text) over all partitions returns the total a
\* search of all partitions for text reported just before it, and a search
\* made just after it reports total 0 and a count made just after it
\* reports 0 for every partition.  (Stated as the claim; the code violates
\* it.)
C25_DeleteMatchesSearch ==
    [][ /\ (ret.op = "get_search_results" /\ ret'.op = "delete_files")
            => ret'.total_deleted = ret.total_results
        /\ (ret.op = "delete_files" /\ ret'.op = "get_search_results")
            => ret'.total_results = 0
        /\ (ret.op = "delete_files" /\ ret'.op = "get_search_counts")
            => \A p \in PartitionSet : ret'.counts[p] = 0 ]_vars

\* C26: Concurrent moves keep a key in one place: when every concurrent
\* move_file and bulk_move_files call has returned success and no task has
\* died, a key that exactly one partition held at the start is held by
\* exactly one partition.  (Stated as the claim; the code violates it.)
C26_MovesKeepOnePlace ==
    ( /\ \A t \in Tasks : pc[t] \in {"idle", "done"}
      /\ \A t \in Tasks : pc[t] = "done" => task[t].success )
    => \A k \in ret.once :
          Cardinality({p \in PartitionSet : HasKey(db[p], k)}) = 1

\* C27: Search-access list is consistent with the access decision: a
\* get_search_access(u) call returns a non-empty partition list only if
\* has_file_access(u), evaluated in the state of the call, returns true: u
\* is admin, or premium with no expiry or an expiry later than now.
\* (Stated as the claim; the code violates it.)
C27_SearchAccessConsistent ==
    [][ \A u \in UserIds :
          ( /\ ret'.op = "get_search_access"
            /\ ret'.user_id = u
            /\ now' = now
            /\ Users' = Users
            /\ ret'.result # << >> )
          => (is_admin(u) \/ is_premium(u)) ]_vars

====
